---- MODULE Spec2Model ----
(***************************************************************************)
(* Model of src/index.js: a polling agent that fetches a page of a user's  *)
(* activities from a GraphQL endpoint, looks for the first entry with no   *)
(* attributes, and when it sits at position 11 or later publishes a text   *)
(* post about the most liked entry before it, then waits and recurses.     *)
(*                                                                         *)
(* index.js holds two programs: lines 1-162 (called variant "A" here) and  *)
(* lines 164-307 (variant "B").  Strings are sequences of one-character    *)
(* strings.                                                                *)
(***************************************************************************)
EXTENDS Integers, Sequences, FiniteSets, TLC

(***************************************************************************)
(* Bounds of the model.                                                    *)
(***************************************************************************)
MaxCycles == 2
MaxSentinels == 2
MaxPieces == 3
MaxPairs == 2

(***************************************************************************)
(* Program constants.                                                      *)
(***************************************************************************)
PerPage == 17
Threshold == 11
MinuteMs == 60000
TimeoutMax == 2147483647

Variants == {"A", "B"}

(***************************************************************************)
(* Strings.                                                                *)
(***************************************************************************)
DigitChars == <<"0", "1", "2", "3", "4", "5", "6", "7", "8", "9">>

RECURSIVE NatToString(_)
NatToString(n) ==
    IF n < 10 THEN <<DigitChars[n + 1]>>
    ELSE NatToString(n \div 10) \o <<DigitChars[(n % 10) + 1]>>

UndefinedString == <<"u", "n", "d", "e", "f", "i", "n", "e", "d">>

\* JavaScript values that reach String.prototype.replaceAll as replaceValue.
NumVal(n) == [t |-> "number", n |-> n, s |-> <<>>]
StrVal(s) == [t |-> "string", n |-> 0, s |-> s]
UndefVal == [t |-> "undefined", n |-> 0, s |-> <<>>]

\* ToString of a value (ECMAScript ToString, for the three types used).
ToStr(v) ==
    CASE v.t = "number" ->
            IF v.n < 0 THEN <<"-">> \o NatToString(0 - v.n) ELSE NatToString(v.n)
      [] v.t = "string" -> v.s
      [] OTHER -> UndefinedString

Sub(s, from, to) == IF from > to THEN <<>> ELSE SubSeq(s, from, to)

MatchAt(s, pat, i) ==
    /\ i >= 1
    /\ i + Len(pat) - 1 <= Len(s)
    /\ \A k \in 1..Len(pat) : s[i + k - 1] = pat[k]

\* StringIndexOf(s, pat, from), 1-based; 0 when there is no occurrence.
RECURSIVE StringIndexOf(_, _, _)
StringIndexOf(s, pat, from) ==
    IF from + Len(pat) - 1 > Len(s) THEN 0
    ELSE IF MatchAt(s, pat, from) THEN from
    ELSE StringIndexOf(s, pat, from + 1)

\* GetSubstitution for a string pattern (no captures): expands the "$"
\* patterns of the replacement text, scanning it from index i.
RECURSIVE GetSubstitution(_, _, _, _, _)
GetSubstitution(repl, i, matched, before, after) ==
    IF i > Len(repl) THEN <<>>
    ELSE IF repl[i] = "$" /\ i < Len(repl) /\ repl[i + 1] = "$"
        THEN <<"$">> \o GetSubstitution(repl, i + 2, matched, before, after)
    ELSE IF repl[i] = "$" /\ i < Len(repl) /\ repl[i + 1] = "&"
        THEN matched \o GetSubstitution(repl, i + 2, matched, before, after)
    ELSE IF repl[i] = "$" /\ i < Len(repl) /\ repl[i + 1] = "`"
        THEN before \o GetSubstitution(repl, i + 2, matched, before, after)
    ELSE IF repl[i] = "$" /\ i < Len(repl) /\ repl[i + 1] = "'"
        THEN after \o GetSubstitution(repl, i + 2, matched, before, after)
    ELSE <<repl[i]>> \o GetSubstitution(repl, i + 1, matched, before, after)

\* String.prototype.replaceAll(pat, repl) with a non-empty string pattern:
\* every non-overlapping occurrence, left to right, found in the ORIGINAL
\* string; from is the next index to search from.
RECURSIVE ReplaceFrom(_, _, _, _)
ReplaceFrom(s, pat, repl, from) ==
    LET p == StringIndexOf(s, pat, from) IN
    IF p = 0 THEN Sub(s, from, Len(s))
    ELSE Sub(s, from, p - 1)
         \o GetSubstitution(repl, 1, pat, Sub(s, 1, p - 1),
                            Sub(s, p + Len(pat), Len(s)))
         \o ReplaceFrom(s, pat, repl, p + Len(pat))

\* Mutant: String.prototype.replace, which replaces the first occurrence only.
ReplaceFirstOnly(s, pat, value) ==
    LET p == StringIndexOf(s, pat, 1) IN
    IF p = 0 THEN s
    ELSE Sub(s, 1, p - 1)
         \o GetSubstitution(ToStr(value), 1, pat, Sub(s, 1, p - 1),
                            Sub(s, p + Len(pat), Len(s)))
         \o Sub(s, p + Len(pat), Len(s))

\* content.replaceAll(`{${key}}`, value): value is converted with ToString.
ReplaceAll(s, pat, value) == ReplaceFrom(s, pat, ToStr(value), 1)

Placeholder(key) == <<"{">> \o key \o <<"}">>

\* generateContent(template, variables); variables is the sequence of
\* [key, value] pairs in Object.entries order.
RECURSIVE GenerateFrom(_, _, _)
GenerateFrom(content, variables, i) ==
    IF i > Len(variables) THEN content
    ELSE GenerateFrom(ReplaceAll(content, Placeholder(variables[i].key),
                                 variables[i].value),
                      variables, i + 1)

generateContent(template, variables) == GenerateFrom(template, variables, 1)

(***************************************************************************)
(* Configuration (lines 10-19 and 173-182).  An environment variable is a  *)
(* set: {} when it is not set, {string} when it is.                        *)
(***************************************************************************)
IsDigit(c) == \E d \in 1..10 : DigitChars[d] = c
DigitValue(c) == (CHOOSE d \in 1..10 : DigitChars[d] = c) - 1

RECURSIVE SkipSpaces(_, _)
SkipSpaces(s, i) ==
    IF i <= Len(s) /\ s[i] = " " THEN SkipSpaces(s, i + 1) ELSE i

RECURSIVE ParseDigits(_, _, _)
ParseDigits(s, i, acc) ==
    IF i <= Len(s) /\ IsDigit(s[i])
    THEN ParseDigits(s, i + 1, acc * 10 + DigitValue(s[i]))
    ELSE acc

NaN == [nan |-> TRUE, n |-> 0]

\* parseInt(string): leading blanks, an optional sign, the longest prefix of
\* digits; NaN when there is no digit.
ParseIntString(s) ==
    LET i == SkipSpaces(s, 1)
        neg == i <= Len(s) /\ s[i] = "-"
        j == IF i <= Len(s) /\ s[i] \in {"-", "+"} THEN i + 1 ELSE i
    IN IF j <= Len(s) /\ IsDigit(s[j])
       THEN [nan |-> FALSE,
             n |-> IF neg THEN 0 - ParseDigits(s, j, 0) ELSE ParseDigits(s, j, 0)]
       ELSE NaN

\* parseInt(process.env.X): an unset variable is undefined, which parses as
\* the string "undefined".
ParseInt(var) ==
    IF var = {} THEN ParseIntString(UndefinedString)
    ELSE ParseIntString(CHOOSE s \in var : TRUE)

\* JavaScript truthiness of an environment variable (undefined and "" are
\* falsy) and of a parsed number (NaN and 0 are falsy).
TruthyVar(var) == var # {} /\ var # {<<>>}
TruthyNum(x) == ~x.nan /\ x.n # 0

SAIKO_ID(e) == ParseInt(e.SAIKO_ID)
CONTENT_TEMPLATE(e) == CHOOSE s \in e.CONTENT_TEMPLATE : TRUE

\* if (!SAIKO_ID || !ACCESS_TOKEN || !CONTENT_TEMPLATE) process.exit(1)
ConfigMissing(e) ==
    \/ ~TruthyNum(SAIKO_ID(e))
    \/ ~TruthyVar(e.ACCESS_TOKEN)
    \/ ~TruthyVar(e.CONTENT_TEMPLATE)

(***************************************************************************)
(* Activity entries and feed pages.  An attribute is {} when the entry     *)
(* lacks the key and {value} when it has it.                               *)
(***************************************************************************)
Fields == {"siteUrl", "createdAt", "likeCount"}

MkEntry(url, created, likes) ==
    [siteUrl |-> url, createdAt |-> created, likeCount |-> likes]

EmptyEntry == MkEntry({}, {}, {})

\* Object.keys(activity)
ObjectKeys(a) == {f \in Fields : a[f] # {}}

\* (a.likeCount || 0)
LikeCountOr0(a) == IF a.likeCount = {} THEN 0 ELSE CHOOSE n \in a.likeCount : TRUE

\* activities.findIndex((activity) => Object.keys(activity).length === 0),
\* 0-based, -1 when no entry qualifies; i is the 1-based scan index.
RECURSIVE FindIndexFrom(_, _)
FindIndexFrom(activities, i) ==
    IF i > Len(activities) THEN 0 - 1
    ELSE IF Cardinality(ObjectKeys(activities[i])) = 0 THEN i - 1
    ELSE FindIndexFrom(activities, i + 1)

\* Mutant: findLastIndex, which reports the last entry with no keys.
RECURSIVE FindLastIndexFrom(_, _)
FindLastIndexFrom(activities, i) ==
    IF i < 1 THEN 0 - 1
    ELSE IF Cardinality(ObjectKeys(activities[i])) = 0 THEN i - 1
    ELSE FindLastIndexFrom(activities, i - 1)

FindLastIndex(activities) == FindLastIndexFrom(activities, Len(activities))

FindIndex(activities) == FindIndexFrom(activities, 1)

\* Mutant: the slice starts at the sentinel and is empty.
TopActivitiesNone(activities, textPosition) ==
    Sub(activities, textPosition, textPosition - 1)

\* activities.slice(0, textPosition - 1)
TopActivities(activities, textPosition) == Sub(activities, 1, textPosition - 1)

\* Math.max(...xs); Math.max() of no arguments is -Infinity.
NegInfinity == 0 - 1
RECURSIVE MathMaxFrom(_, _, _)
MathMaxFrom(xs, i, acc) ==
    IF i > Len(xs) THEN acc
    ELSE MathMaxFrom(xs, i + 1, IF xs[i] > acc THEN xs[i] ELSE acc)

MaxLikes(top) ==
    MathMaxFrom([i \in 1..Len(top) |-> LikeCountOr0(top[i])], 1, NegInfinity)

\* Mutant: the filter compares with the first entry's like count.
MostLikedFirstOnly(top) ==
    LET IsTop(a) == LikeCountOr0(a) = LikeCountOr0(top[1]) IN SelectSeq(top, IsTop)

\* topActivities.filter((a) => (a.likeCount || 0) === maxLikes)
MostLikedActivities(top) ==
    LET IsTop(a) == LikeCountOr0(a) = MaxLikes(top) IN SelectSeq(top, IsTop)

\* selectedActivity.createdAt as a JavaScript value
CreatedAtValue(a) ==
    IF a.createdAt = {} THEN UndefVal ELSE NumVal(CHOOSE n \in a.createdAt : TRUE)

KeySaikoId == <<"S", "A", "I", "K", "O", "_", "I", "D">>
KeyCreatedAt == <<"C", "R", "E", "A", "T", "E", "D", "_", "A", "T">>

\* { SAIKO_ID, CREATED_AT: selectedActivity.createdAt }
ContentVariables(e, selected) ==
    << [key |-> KeySaikoId, value |-> NumVal(SAIKO_ID(e).n)],
       [key |-> KeyCreatedAt, value |-> CreatedAtValue(selected)] >>

(***************************************************************************)
(* Feed Client (lines 56-91 and 199-248).                                  *)
(*                                                                         *)
(* A response is [kind, errors, data]:                                     *)
(*   kind    "netError" (fetch rejects), "nonJson" (response.json()        *)
(*           rejects), "nullBody" (the body parses to null), "object";     *)
(*   errors  "absent", "empty" (errors: []) or "nonempty";                 *)
(*   data    [kind, activities], kind being "undefined" (no data key),     *)
(*           "null", "noPage", "noActivities", "notArray" (activities is   *)
(*           an object that is no array), "array", and for the mutation    *)
(*           "noSave" (data without SaveTextActivity) or "saved".          *)
(***************************************************************************)
Data(kind, activities) == [kind |-> kind, activities |-> activities]
NullData == Data("null", <<>>)
Response(kind, errors, data) == [kind |-> kind, errors |-> errors, data |-> data]

Returned(value) == [threw |-> FALSE, value |-> value]
Thrown == [threw |-> TRUE, value |-> NullData]

\* The body of the try block of fetchGraphQL: fetch() rejects without a URL
\* or on a network error, response.json() rejects on a non-JSON body,
\* result.errors throws on a null body, and any errors array is truthy.
FetchGraphQLTry(url, resp) ==
    IF ~TruthyVar(url) \/ resp.kind \in {"netError", "nonJson", "nullBody"}
    THEN Thrown
    ELSE IF resp.errors # "absent" THEN Returned(NullData)
    ELSE Returned(resp.data)

\* Mutant: fetchGraphQL without the errors check.
FetchGraphQLIgnoringErrors(url, resp) ==
    IF ~TruthyVar(url) \/ resp.kind \in {"netError", "nonJson", "nullBody"}
    THEN Returned(NullData)
    ELSE Returned(resp.data)

\* fetchGraphQL: the catch block turns every throw into a null result.
FetchGraphQL(url, resp) ==
    IF FetchGraphQLTry(url, resp).threw THEN Returned(NullData)
    ELSE FetchGraphQLTry(url, resp)

Nullish(data) == data.kind \in {"null", "undefined"}

\* An activities value: an array of entries, or an object without findIndex.
Activities(isArray, items) == [isArray |-> isArray, items |-> items]

\* Mutant: data.Page.activities is passed on as it is, undefined included.
GetLatestActivitiesNoDefault(url, resp) ==
    LET data == FetchGraphQL(url, resp).value IN
    IF data.kind = "array" THEN Activities(TRUE, data.activities)
    ELSE Activities(FALSE, <<>>)

\* getLatestActivities: data?.Page?.activities || []
GetLatestActivities(url, resp) ==
    LET data == FetchGraphQL(url, resp).value IN
    CASE data.kind = "array" -> Activities(TRUE, data.activities)
      [] data.kind = "notArray" -> Activities(FALSE, <<>>)
      [] OTHER -> Activities(TRUE, <<>>)

\* The value tested by `if (result)` after the publish call: variant A tests
\* postStatus(content), that is data.SaveTextActivity; variant B tests data.
PublishResult(v, url, resp) ==
    LET data == FetchGraphQL(url, resp).value IN
    IF v = "A"
    THEN IF data.kind = "saved" THEN "truthy" ELSE "falsy"
    ELSE IF Nullish(data) THEN "falsy" ELSE "truthy"

(***************************************************************************)
(* The wait (lines 48-54, 133-134 and 290-293).  Intervals are counted in  *)
(* thirds of a minute, so that 505/3 minutes is the integer 505.           *)
(***************************************************************************)
BaseThirds == 505
StepThirds == 15 * 3
ThirdMs == MinuteMs \div 3

Max(a, b) == IF a > b THEN a ELSE b

\* interval, in thirds of a minute:
\*   A: Math.max(1, Math.floor((505 / 3) - (15 * (textPosition - 1))))
\*   B: (505 / 3) - (15 * (textPosition - 1))
Interval(v, textPosition) ==
    IF v = "A"
    THEN 3 * Max(1, (BaseThirds - StepThirds * (textPosition - 1)) \div 3)
    ELSE BaseThirds - StepThirds * (textPosition - 1)

\* The delays of the iterations lo..hi of the for loop of countdown, one
\* delay(60000) each (summed by halves to keep the evaluation shallow).
RECURSIVE DelaysMs(_, _)
DelaysMs(lo, hi) ==
    IF lo > hi THEN 0
    ELSE IF lo = hi THEN MinuteMs
    ELSE DelaysMs(lo, (lo + hi) \div 2) + DelaysMs(((lo + hi) \div 2) + 1, hi)

\* countdown(minutes): for (let i = minutes; i > 0; i--) await delay(60000)
CountdownMs(minutes) == DelaysMs(1, minutes)

\* setTimeout(resolve, ms): a delay outside 1..TimeoutMax is replaced by 1.
SetTimeoutMs(ms) == IF ms >= 1 /\ ms <= TimeoutMax THEN ms ELSE 1

\* Milliseconds the cycle is suspended for before the recursive call.
WaitMs(v, interval) ==
    IF v = "A" THEN CountdownMs(interval \div 3)
    ELSE SetTimeoutMs(interval * ThirdMs)

(***************************************************************************)
(* Inputs: environments, feed pages and responses.                         *)
(***************************************************************************)
Url == <<"h", "t", "t", "p", ":", "/", "/", "a", "p", "i">>
Token == <<"t", "o", "k">>

\* "{SAIKO_ID}:{CREATED_AT} {X} {CREATED_AT}{SAIKO_ID}"
Template ==
    Placeholder(KeySaikoId) \o <<":">> \o Placeholder(KeyCreatedAt)
    \o <<" ">> \o Placeholder(<<"X">>) \o <<" ">>
    \o Placeholder(KeyCreatedAt) \o Placeholder(KeySaikoId)

EnvUrls == {{}, {Url}}
EnvIds == {{}, {<<>>}, {<<"0">>}, {<<"a", "b">>}, {<<"7">>}, {<<"4", "2", "x">>}}
EnvTokens == {{}, {<<>>}, {Token}}
EnvTemplates == {{}, {<<>>}, {Template}}

Envs ==
    [ACCESS_API : EnvUrls, SAIKO_ID : EnvIds, ACCESS_TOKEN : EnvTokens,
     CONTENT_TEMPLATE : EnvTemplates]

\* Like counts by index: a tie for the maximum among the first ten entries,
\* a single maximum among the first eleven, larger counts further on.
LikeCounts == <<2, 5, 5, 1, 3, 0, 4, 1, 2, 3, 7, 7, 8, 9, 9, 6, 9>>
Patterns == 1..2

\* The entry at index i of a page of pattern k: (1) entries with only a
\* siteUrl alternating with entries of like count 0; (2) entries with the
\* like count LikeCounts[i] and no siteUrl.
PatternEntry(k, i) ==
    IF k = 1
    THEN (IF i % 2 = 1 THEN MkEntry({"u"}, {}, {}) ELSE MkEntry({"u"}, {1000 + i}, {0}))
    ELSE MkEntry({}, {1000 + i}, {LikeCounts[i]})

RECURSIVE SetsUpTo(_, _)
SetsUpTo(n, k) ==
    IF k = 0 THEN {{}}
    ELSE SetsUpTo(n, k - 1) \cup {S \cup {a} : S \in SetsUpTo(n, k - 1), a \in 1..n}

\* The page of n entries of pattern k whose entries at the indexes of S have
\* no attributes.
Page(n, S, k) == [i \in 1..n |-> IF i \in S THEN EmptyEntry ELSE PatternEntry(k, i)]

Feeds ==
    {Page(n, S, k) : n \in 0..PerPage, S \in SetsUpTo(PerPage, MaxSentinels),
                     k \in Patterns}

SampleFeed == Page(12, {11}, 2)

\* [{likeCount: 3}, {likeCount: 5}, {}, {likeCount: 1}]
ExampleFeed ==
    <<MkEntry({}, {}, {3}), MkEntry({}, {}, {5}), EmptyEntry, MkEntry({}, {}, {1})>>

QueryResponses ==
    {Response("object", "absent", Data("array", f)) : f \in Feeds \cup {ExampleFeed}}
    \cup {Response(k, "absent", NullData) : k \in {"netError", "nonJson", "nullBody"}}
    \cup {Response("object", e, d) :
            e \in {"empty", "nonempty"},
            d \in {NullData, Data("array", SampleFeed)}}
    \cup {Response("object", "absent", Data(k, <<>>)) :
            k \in {"undefined", "null", "noPage", "noActivities", "notArray"}}

MutationResponses ==
    {Response(k, "absent", NullData) : k \in {"netError", "nonJson", "nullBody"}}
    \cup {Response("object", e, d) :
            e \in {"absent", "nonempty"},
            d \in {NullData, Data("noSave", <<>>), Data("saved", <<>>)}}

(***************************************************************************)
(* State.                                                                  *)
(***************************************************************************)
VARIABLES
    variant,       \* which of the two programs of index.js runs
    env,           \* process.env after dotenv.config()
    dirnameBound,  \* whether __dirname is bound in the module scope
    proc,          \* "starting", "running" or "exited"
    exitCode,      \* the exit status once proc = "exited"
    stack,         \* the activations of analyzeAndPost, outermost first
    loop,          \* the promise of the top-level analyzeAndPost() call
    fetches,       \* the number of activity queries handed to fetch() so far
    input,         \* the arguments of a single call of a function
    output         \* what that call returned

vars ==
    <<variant, env, dirnameBound, proc, exitCode, stack, loop, fetches,
      input, output>>

NoActivities == Activities(TRUE, <<>>)

\* One activation of analyzeAndPost at position pc, its locals not yet set.
BlankFrame(pc) ==
    [pc |-> pc, activities |-> NoActivities,
     textPosition |-> 0, selected |-> {}, content |-> <<>>, publishes |-> 0,
     result |-> "none", interval |-> 0, waitMs |-> 0, caught |-> FALSE]

\* The first suspension point of fetchGraphQL: variant B first awaits
\* delay(10000), variant A awaits fetch() at once.
RequestPc(v, op) ==
    IF v = "B" THEN (IF op = "query" THEN "fetchDelay" ELSE "publishDelay")
    ELSE (IF op = "query" THEN "fetching" ELSE "publishing")

\* The requests made by one call of fetch(): none without an endpoint URL.
Sent(e) == IF TruthyVar(e.ACCESS_API) THEN 1 ELSE 0

(***************************************************************************)
(* One cycle of analyzeAndPost (lines 101-143 and 258-302).                *)
(***************************************************************************)
\* Mutant: the error leaves analyzeAndPost.
Rethrow(f) == [f EXCEPT !.pc = "thrown"]

\* Lines 140-142 and 299-301: the catch block logs the error's message and
\* analyzeAndPost returns.
Catch(f) == [f EXCEPT !.pc = "returned", !.caught = TRUE]

\* Mutant: the cycle ends without a wait.
EndWithoutWait(v, f) == [f EXCEPT !.pc = "returned"]

\* Lines 133-134 and 290-293: compute the interval and start the wait.
StartWait(v, f) ==
    [f EXCEPT !.pc = "waiting",
              !.interval = Interval(v, f.textPosition),
              !.waitMs = WaitMs(v, Interval(v, f.textPosition))]

\* Mutant: a publish call that gave nothing is issued again.
PublishedOrRetried(v, f, result) ==
    IF result = "falsy"
    THEN [f EXCEPT !.pc = "publishing", !.publishes = @ + 1]
    ELSE StartWait(v, [f EXCEPT !.result = result])

\* Lines 125-134 and 282-293: the outcome of the publish call is logged
\* either way and the cycle goes on to its wait.
Published(v, f, result) == StartWait(v, [f EXCEPT !.result = result])

\* Lines 111-123 and 269-280 for the tie-set index r drawn by Math.random():
\* select, render and call the publish mutation.  An empty tie set makes
\* selectedActivity undefined, and reading its createdAt throws.
Publish(v, e, f, r) ==
    LET top == TopActivities(f.activities.items, f.textPosition)
        mostLiked == MostLikedActivities(top)
    IN IF Len(mostLiked) = 0
       THEN Catch(f)
       ELSE [f EXCEPT !.pc = RequestPc(v, "mutation"),
                      !.selected = {mostLiked[r]},
                      !.content = generateContent(CONTENT_TEMPLATE(e),
                                      ContentVariables(e, mostLiked[r])),
                      !.publishes = IF v = "A" THEN Sent(e) ELSE 0]

\* Mutant: the gate compares with the threshold strictly.
MeetsThresholdStrict(textPosition) == textPosition > Threshold

\* if (textPosition >= 11)
MeetsThreshold(textPosition) == textPosition >= Threshold

\* The frames a cycle can be in at its next suspension point once
\* getLatestActivities has delivered activities: findIndex throws on a
\* value that is no array (caught at line 140/299), no entry without keys
\* ends the cycle, otherwise the gate decides between publish and wait.
Decide(v, e, f) ==
    IF ~f.activities.isArray
    THEN {Catch(f)}
    ELSE LET textPostIndex == FindIndex(f.activities.items)
             g == [f EXCEPT !.textPosition = textPostIndex + 1]
         IN IF textPostIndex = 0 - 1 THEN {[f EXCEPT !.pc = "returned"]}
            ELSE IF MeetsThreshold(g.textPosition)
            THEN LET n == Len(MostLikedActivities(
                              TopActivities(g.activities.items, g.textPosition)))
                 IN {Publish(v, e, g, r) : r \in 1..Max(1, n)}
            ELSE {StartWait(v, g)}

TypeOK ==
    /\ variant \in Variants
    /\ env \in Envs
    /\ dirnameBound \in BOOLEAN
    /\ proc \in {"starting", "running", "exited"}
    /\ exitCode \in {0, 1}
    /\ loop \in {"none", "pending", "resolved", "rejected"}
    /\ fetches \in 0..MaxCycles
    /\ Len(stack) <= MaxCycles

Init ==
    /\ variant \in Variants
    /\ env \in Envs
    /\ dirnameBound \in (IF variant = "A" THEN {TRUE} ELSE BOOLEAN)
    /\ proc = "starting"
    /\ exitCode = 0
    /\ stack = <<>>
    /\ loop = "none"
    /\ fetches = 0
    /\ input = <<>>
    /\ output = <<>>

\* Module evaluation, lines 1-162 or 164-307: the configuration check exits
\* with status 1; variant B then reads __dirname (line 185), which throws a
\* ReferenceError where the module scope does not bind it; otherwise the
\* first call of analyzeAndPost runs up to its first await.
Startup ==
    /\ proc = "starting"
    /\ IF ConfigMissing(env) \/ ~dirnameBound
       THEN /\ proc' = "exited"
            /\ exitCode' = 1
            /\ UNCHANGED <<stack, loop, fetches>>
       ELSE /\ proc' = "running"
            /\ stack' = <<BlankFrame(RequestPc(variant, "query"))>>
            /\ loop' = "pending"
            /\ fetches' = IF variant = "A" THEN Sent(env) ELSE 0
            /\ UNCHANGED exitCode
    /\ UNCHANGED <<input, output, variant, env, dirnameBound>>

\* Variant B, lines 201-202: delay(10000) is over and fetch() is called.
CourtesyElapsed(i) ==
    /\ proc = "running"
    /\ i \in 1..Len(stack)
    /\ stack[i].pc \in {"fetchDelay", "publishDelay"}
    /\ IF stack[i].pc = "fetchDelay"
       THEN /\ stack' = [stack EXCEPT ![i].pc = "fetching"]
            /\ fetches' = fetches + Sent(env)
       ELSE /\ stack' = [stack EXCEPT ![i].pc = "publishing",
                                      ![i].publishes = @ + Sent(env)]
            /\ UNCHANGED fetches
    /\ UNCHANGED <<input, output, variant, env, dirnameBound, proc, exitCode, loop>>

\* The activity query settles with resp; the cycle runs on to its next
\* suspension point.
FetchResponse(i) ==
    /\ proc = "running"
    /\ i \in 1..Len(stack)
    /\ stack[i].pc = "fetching"
    /\ \E resp \in QueryResponses :
         /\ TruthyVar(env.ACCESS_API) \/ resp.kind = "netError"
         /\ \E f \in Decide(variant, env,
                     [stack[i] EXCEPT
                        !.activities = GetLatestActivities(env.ACCESS_API, resp)]) :
              stack' = [stack EXCEPT ![i] = f]
    /\ UNCHANGED <<input, output, variant, env, dirnameBound, proc, exitCode, loop, fetches>>

\* The publish mutation settles with resp (lines 123-134 and 280-293).
PublishResponse(i) ==
    /\ proc = "running"
    /\ i \in 1..Len(stack)
    /\ stack[i].pc = "publishing"
    /\ \E resp \in MutationResponses :
         /\ TruthyVar(env.ACCESS_API) \/ resp.kind = "netError"
         /\ stack' = [stack EXCEPT ![i] =
                Published(variant, @,
                          PublishResult(variant, env.ACCESS_API, resp))]
    /\ UNCHANGED <<input, output, variant, env, dirnameBound, proc, exitCode, loop, fetches>>

\* Mutant: the caller does not await the callee and stays in its wait.
CallerKeepsWaiting == BlankFrame("waiting")

\* The activation the recursive call of line 136/295 leaves behind: it
\* awaits the callee and its locals are dead.
AwaitingCallee == BlankFrame("awaitRec")

\* The wait is over and analyzeAndPost calls itself (lines 134-136 and
\* 293-295): the callee runs up to its first await.
WaitElapsed(i) ==
    /\ proc = "running"
    /\ i \in 1..Len(stack)
    /\ stack[i].pc = "waiting"
    /\ Len(stack) < MaxCycles
    /\ stack' = Append([stack EXCEPT ![i] = AwaitingCallee],
                       BlankFrame(RequestPc(variant, "query")))
    /\ fetches' = fetches + (IF variant = "A" THEN Sent(env) ELSE 0)
    /\ UNCHANGED <<input, output, variant, env, dirnameBound, proc, exitCode, loop>>

\* The callee's promise is settled: fulfilled, the caller resumes after line
\* 136/295 and returns too; rejected, the await throws inside the caller's
\* try block and the caller's catch handles it.
CalleeReturned(i) ==
    /\ proc = "running"
    /\ i \in 1..(Len(stack) - 1)
    /\ stack[i].pc = "awaitRec"
    /\ stack[i + 1].pc \in {"returned", "thrown"}
    /\ i + 1 = Len(stack)
    /\ stack' = [SubSeq(stack, 1, i) EXCEPT
                    ![i] = IF stack[i + 1].pc = "thrown"
                           THEN Catch(@)
                           ELSE [@ EXCEPT !.pc = "returned"]]
    /\ UNCHANGED <<input, output, variant, env, dirnameBound, proc, exitCode, loop, fetches>>

\* Mutant: the loop is started again once it has ended.
LoopRestarted ==
    /\ proc = "running"
    /\ Len(stack) = 1
    /\ stack[1].pc \in {"returned", "thrown"}
    /\ stack' = <<BlankFrame(RequestPc(variant, "query"))>>
    /\ UNCHANGED <<input, output, variant, env, dirnameBound, proc, exitCode, loop, fetches>>

\* The outermost activation is over: the promise of line 160/305 is
\* fulfilled when it returned, and rejected, which calls the handler of
\* lines 160-162 / 305-307, when an error left it.
LoopSettled ==
    /\ proc = "running"
    /\ Len(stack) = 1
    /\ stack[1].pc \in {"returned", "thrown"}
    /\ loop = "pending"
    /\ loop' = IF stack[1].pc = "thrown" THEN "rejected" ELSE "resolved"
    /\ stack' = <<>>
    /\ UNCHANGED <<input, output, variant, env, dirnameBound, proc, exitCode, fetches>>

Next ==
    \/ Startup
    \/ \E i \in 1..MaxCycles : CourtesyElapsed(i)
    \/ \E i \in 1..MaxCycles : FetchResponse(i)
    \/ \E i \in 1..MaxCycles : PublishResponse(i)
    \/ \E i \in 1..MaxCycles : WaitElapsed(i)
    \/ \E i \in 1..MaxCycles : CalleeReturned(i)
    \/ LoopSettled

Spec == Init /\ [][Next]_vars

\* The timers of delay, countdown and setTimeout fire; nothing makes the
\* remote answer.
Fairness ==
    /\ WF_vars(\E i \in 1..MaxCycles : WaitElapsed(i))
    /\ WF_vars(\E i \in 1..MaxCycles : CourtesyElapsed(i))

FairSpec == Spec /\ Fairness

(***************************************************************************)
(* Single calls of the pure functions, from every input of a bounded set.  *)
(***************************************************************************)
LoopIdle ==
    /\ variant = "A"
    /\ env = [ACCESS_API |-> {Url}, SAIKO_ID |-> {<<"7">>},
              ACCESS_TOKEN |-> {Token}, CONTENT_TEMPLATE |-> {Template}]
    /\ dirnameBound = TRUE
    /\ proc = "starting"
    /\ exitCode = 0
    /\ stack = <<>>
    /\ loop = "none"
    /\ fetches = 0

LoopVars == <<variant, env, dirnameBound, proc, exitCode, stack, loop, fetches>>

NotCalled == [fn |-> "none", threw |-> FALSE, value |-> NullData,
              activities |-> NoActivities, content |-> <<>>]

\* Templates: up to MaxPieces pieces, and "Hi {A} at {B}".
Pieces ==
    {Placeholder(<<"A">>), Placeholder(<<"B">>), Placeholder(<<"Z">>),
     <<"H", "i", " ">>, <<"}", "$", "{">>}

RECURSIVE Concatenations(_)
Concatenations(n) ==
    IF n = 0 THEN {<<>>}
    ELSE Concatenations(n - 1)
         \cup {t \o q : t \in Concatenations(n - 1), q \in Pieces}

ExampleTemplate ==
    <<"H", "i", " ">> \o Placeholder(<<"A">>) \o <<" ", "a", "t", " ">>
    \o Placeholder(<<"B">>)

Templates == Concatenations(MaxPieces) \cup {ExampleTemplate}

Keys == {<<"A">>, <<"B">>, <<"C">>}
Values ==
    {NumVal(7), StrVal(<<"x">>), StrVal(Placeholder(<<"B">>)),
     StrVal(<<"$", "&">>), UndefVal}

\* Objects as the sequence Object.entries yields: distinct keys, any order.
RECURSIVE Mappings(_)
Mappings(n) ==
    IF n = 0 THEN {<<>>}
    ELSE Mappings(n - 1)
         \cup {Append(m, [key |-> k, value |-> v]) :
                 m \in {m \in Mappings(n - 1) : Len(m) = n - 1},
                 k \in Keys, v \in Values}

DistinctKeys(m) == \A i, j \in 1..Len(m) : m[i].key = m[j].key => i = j

RenderInputs ==
    {[template |-> t, variables |-> m] :
        t \in Templates, m \in {m \in Mappings(MaxPairs) : DistinctKeys(m)}}

RenderInit ==
    /\ LoopIdle
    /\ input \in RenderInputs
    /\ output = NotCalled

\* One call generateContent(input.template, input.variables).
Render ==
    /\ output.fn = "none"
    /\ output' = [NotCalled EXCEPT
                    !.fn = "generateContent",
                    !.content = generateContent(input.template, input.variables)]
    /\ UNCHANGED <<input, LoopVars>>

RenderNext == Render

RenderSpec == RenderInit /\ [][RenderNext]_vars

ClientInputs ==
    {[url |-> u, resp |-> r] :
        u \in EnvUrls, r \in QueryResponses \cup MutationResponses}

ClientInit ==
    /\ LoopIdle
    /\ input \in ClientInputs
    /\ output = NotCalled

\* One call fetchGraphQL(query, variables) that the remote answers with
\* input.resp.
CallFetchGraphQL ==
    /\ output.fn = "none"
    /\ output' = [NotCalled EXCEPT
                    !.fn = "fetchGraphQL",
                    !.threw = FetchGraphQL(input.url, input.resp).threw,
                    !.value = FetchGraphQL(input.url, input.resp).value]
    /\ UNCHANGED <<input, LoopVars>>

\* One call getLatestActivities() that the remote answers with input.resp;
\* output.value is its local `data`, the result of fetchGraphQL.
CallGetLatestActivities ==
    /\ output.fn = "none"
    /\ output' = [NotCalled EXCEPT
                    !.fn = "getLatestActivities",
                    !.value = FetchGraphQL(input.url, input.resp).value,
                    !.activities = GetLatestActivities(input.url, input.resp)]
    /\ UNCHANGED <<input, LoopVars>>

ClientNext == CallFetchGraphQL \/ CallGetLatestActivities

ClientSpec == ClientInit /\ [][ClientNext]_vars

(***************************************************************************)
(* Vocabulary of the properties.                                           *)
(***************************************************************************)
FrameIds == 1..Len(stack)

\* An activation whose cycle is under way: fetching, publishing or waiting.
InFlight(f) ==
    f.pc \in {"fetchDelay", "fetching", "publishDelay", "publishing", "waiting"}

\* An activation that has left DECIDING for good: the publish call, if the
\* cycle makes one, has been issued.
Decided(f) == f.pc \in {"publishing", "waiting", "returned"}

HasNoAttributes(a) == \A k \in Fields : a[k] = {}

\* p is the position of the first entry of items without attributes.
IsFirstSentinel(items, p) ==
    /\ p \in 1..Len(items)
    /\ HasNoAttributes(items[p])
    /\ \A q \in 1..(p - 1) : ~HasNoAttributes(items[q])

Likes(a) == IF a.likeCount = {} THEN 0 ELSE CHOOSE n \in a.likeCount : TRUE

\* The template with each placeholder of the mapping replaced, in one pass
\* from the left, by the string form of its value; everything else verbatim.
RECURSIVE Substituted(_, _, _)
Substituted(t, m, i) ==
    IF i > Len(t) THEN <<>>
    ELSE IF \E j \in 1..Len(m) : MatchAt(t, Placeholder(m[j].key), i)
    THEN LET j == CHOOSE j \in 1..Len(m) : MatchAt(t, Placeholder(m[j].key), i)
         IN ToStr(m[j].value) \o Substituted(t, m, i + Len(m[j].key) + 2)
    ELSE <<t[i]>> \o Substituted(t, m, i + 1)

(***************************************************************************)
(* C1                                                                      *)
(***************************************************************************)
\* C1: the scan loop has no terminal state: while the process runs no cycle
\* ends without rescheduling, so no activation of analyzeAndPost returns and
\* the promise of the loop never settles.
C1_NoTerminalState ==
    proc = "running" =>
        /\ loop = "pending"
        /\ \A i \in FrameIds : stack[i].pc # "returned"

(***************************************************************************)
(* C2                                                                      *)
(***************************************************************************)
\* C2: at most one fetch/decide/publish/wait cycle is in flight at any time.
C2_OneCycleInFlight ==
    Cardinality({i \in FrameIds : InFlight(stack[i])}) <= 1

C2_Witness ==
    /\ Len(stack) = 2
    /\ stack[1].pc = "awaitRec"
    /\ stack[2].pc = "publishing"

(***************************************************************************)
(* C3                                                                      *)
(***************************************************************************)
\* C3: a cycle issues a publish call if and only if the fetched feed has its
\* first sentinel at position 11 or later, and then exactly one.
C3_ThresholdGate ==
    \A i \in FrameIds :
        Decided(stack[i]) =>
            /\ stack[i].publishes \in {0, 1}
            /\ stack[i].publishes = 1 <=>
                 \E p \in Threshold..PerPage :
                     IsFirstSentinel(stack[i].activities.items, p)

C3_Witness ==
    \E i \in FrameIds :
        /\ stack[i].pc = "waiting"
        /\ stack[i].publishes = 1
        /\ IsFirstSentinel(stack[i].activities.items, Threshold)

(***************************************************************************)
(* C4                                                                      *)
(***************************************************************************)
\* C4: the position a cycle uses is the 1-based index of the first entry
\* without attributes; a feed without such an entry yields no position and
\* the example feed yields position 3.
C4_FirstSentinelPosition ==
    \A i \in FrameIds :
        LET f == stack[i] IN
        Decided(f) /\ f.activities.isArray =>
            /\ f.textPosition # 0 => IsFirstSentinel(f.activities.items, f.textPosition)
            /\ f.textPosition = 0 =>
                 /\ \A p \in 1..Len(f.activities.items) :
                        ~HasNoAttributes(f.activities.items[p])
                 /\ f.pc = "returned"
            /\ f.activities.items = ExampleFeed => f.textPosition = 3

C4_Witness ==
    \E i \in FrameIds :
        /\ stack[i].pc = "waiting"
        /\ stack[i].textPosition = 4
        /\ \E q \in 5..Len(stack[i].activities.items) :
               HasNoAttributes(stack[i].activities.items[q])

(***************************************************************************)
(* C5                                                                      *)
(***************************************************************************)
\* C5: a selected candidate is an entry strictly before the sentinel whose
\* like count (0 when missing) is the maximum over the entries strictly
\* before the sentinel.
C5_CandidateHasMaxLikes ==
    \A i \in FrameIds :
        LET f == stack[i]
            items == f.activities.items
        IN \A a \in f.selected :
             /\ \E q \in 1..(f.textPosition - 1) : items[q] = a
             /\ \A q \in 1..(f.textPosition - 1) : Likes(items[q]) <= Likes(a)

\* A tie: the candidate is the second of two entries with the maximum, and
\* an entry after the sentinel has more likes.
C5_Witness ==
    \E i \in FrameIds :
        LET f == stack[i]
            items == f.activities.items
        IN /\ f.textPosition >= Threshold
           /\ f.selected = {items[3]}
           /\ Likes(items[2]) = Likes(items[3])
           /\ Likes(items[1]) < Likes(items[3])
           /\ \E q \in (f.textPosition + 1)..Len(items) : Likes(items[q]) > Likes(items[3])

(***************************************************************************)
(* C6                                                                      *)
(***************************************************************************)
\* C6: a cycle that waits with sentinel position p waits
\* max(1, floor(505/3 - 15 * (p - 1))) minutes: a whole number of minutes,
\* at least one.
C6_IntervalFormula ==
    \A i \in FrameIds :
        LET f == stack[i]
            minutes == Max(1, (505 - 45 * (f.textPosition - 1)) \div 3)
        IN f.pc = "waiting" =>
             /\ f.interval = 3 * minutes
             /\ f.waitMs = minutes * 60000
             /\ f.waitMs >= 60000

(***************************************************************************)
(* C7                                                                      *)
(***************************************************************************)
\* C7: for a body with a non-empty errors array and for a transport failure
\* (network error or non-JSON body) fetchGraphQL returns null and does not
\* throw.
C7_ErrorsYieldNull ==
    (/\ output.fn = "fetchGraphQL"
     /\ \/ input.resp.kind \in {"netError", "nonJson"}
        \/ input.resp.kind = "object" /\ input.resp.errors = "nonempty")
    => ~output.threw /\ output.value = NullData

C7_Witness ==
    /\ output.fn = "fetchGraphQL"
    /\ input.resp.kind = "object"
    /\ input.resp.errors = "nonempty"
    /\ input.resp.data.kind = "array"
    /\ TruthyVar(input.url)

(***************************************************************************)
(* C8                                                                      *)
(***************************************************************************)
\* C8: generateContent(T, V) is T with every {k}, k a key of V, replaced by
\* the string form of V[k], other placeholders verbatim, unused keys ignored.
C8_RenderSubstitutes ==
    output.fn = "generateContent" =>
        output.content = Substituted(input.template, input.variables, 1)

(***************************************************************************)
(* C9                                                                      *)
(***************************************************************************)
UserIdIsInteger(e) == ~ParseInt(e.SAIKO_ID).nan

SettingMissing(e) ==
    \/ e.SAIKO_ID = {}
    \/ e.ACCESS_TOKEN = {}
    \/ e.CONTENT_TEMPLATE = {}
    \/ e.ACCESS_API = {}

\* C9: when one of the four required settings is missing or the user id is
\* no integer, startup exits with a non-zero status before any fetch.
C9_MissingSettingIsFatal ==
    proc # "starting" /\ (SettingMissing(env) \/ ~UserIdIsInteger(env)) =>
        /\ proc = "exited"
        /\ exitCode # 0
        /\ fetches = 0
        /\ loop = "none"

(***************************************************************************)
(* C10                                                                     *)
(***************************************************************************)
\* C10: the content of a publish call is the configured template with every
\* {SAIKO_ID} replaced by the user id and every {CREATED_AT} by the
\* createdAt of the candidate of that cycle, an entry with the maximum like
\* count before the sentinel.
C10_PublishedContent ==
    \A i \in FrameIds :
        LET f == stack[i]
            items == f.activities.items
        IN f.pc \in {"publishDelay", "publishing"} \/ f.publishes > 0 =>
             \E q \in 1..(f.textPosition - 1) :
                /\ \A r \in 1..(f.textPosition - 1) : Likes(items[r]) <= Likes(items[q])
                /\ f.selected = {items[q]}
                /\ f.content =
                     Substituted(CHOOSE t \in env.CONTENT_TEMPLATE : TRUE,
                        << [key |-> KeySaikoId,
                            value |-> NumVal(ParseInt(env.SAIKO_ID).n)],
                           [key |-> KeyCreatedAt,
                            value |-> IF items[q].createdAt = {} THEN UndefVal
                                      ELSE NumVal(CHOOSE n \in items[q].createdAt : TRUE)] >>,
                        1)

\* The sentinel at position 12 of 17 entries and a unique maximum.
C10_Witness ==
    \E i \in FrameIds :
        LET f == stack[i] IN
        /\ f.pc = "publishing"
        /\ f.textPosition = 12
        /\ Len(f.activities.items) = PerPage
        /\ f.selected = {PatternEntry(2, 11)}
        /\ \A q \in 1..10 : Likes(f.activities.items[q]) < Likes(f.activities.items[11])

(***************************************************************************)
(* C11                                                                     *)
(***************************************************************************)
BelowThreshold(f) == f.textPosition \in 1..(Threshold - 1)

\* C11: a cycle whose sentinel position is 1..10 publishes nothing and still
\* reschedules: it waits for the interval of its position and then the next
\* cycle's fetch starts.
C11_BelowThresholdReschedules ==
    /\ [](\A i \in FrameIds :
            Decided(stack[i]) /\ BelowThreshold(stack[i]) =>
                /\ stack[i].pc = "waiting"
                /\ stack[i].publishes = 0
                /\ stack[i].selected = {}
                /\ stack[i].waitMs >= MinuteMs)
    /\ \A i \in 1..(MaxCycles - 1) :
         (Len(stack) = i /\ stack[i].pc = "waiting" /\ BelowThreshold(stack[i]))
         ~> (Len(stack) = i + 1 /\ stack[i + 1].pc = "fetching" /\ fetches = i + 1)

C11_Witness ==
    /\ Len(stack) = 1
    /\ stack[1].pc = "waiting"
    /\ stack[1].textPosition = Threshold - 1
    /\ stack[1].publishes = 0

(***************************************************************************)
(* C12                                                                     *)
(***************************************************************************)
\* C12: a cycle issues at most one publish call; a publish call that gave a
\* null result is not repeated, and the cycle is then in its wait with the
\* interval of its position, the one a successful publish is followed by.
C12_OnePublishPerCycle ==
    \A i \in FrameIds :
        /\ stack[i].publishes <= 1
        /\ stack[i].result # "none" =>
              /\ stack[i].pc = "waiting"
              /\ stack[i].publishes = 1
              /\ stack[i].interval = Interval(variant, stack[i].textPosition)
              /\ stack[i].waitMs = WaitMs(variant, stack[i].interval)

C12_Witness ==
    \E i \in FrameIds :
        /\ stack[i].result = "falsy"
        /\ stack[i].pc = "waiting"
        /\ stack[i].publishes = 1

(***************************************************************************)
(* C13                                                                     *)
(***************************************************************************)
\* No activation ends with an error and the promise of the top-level call
\* is never rejected.
NoErrorLeavesCycle ==
    /\ loop # "rejected"
    /\ \A i \in FrameIds : stack[i].pc # "thrown"

\* An error was raised in a cycle and handled by its catch block.
C13_ErrorCaught ==
    \E i \in FrameIds : stack[i].caught /\ stack[i].pc = "returned"

\* C13: no error of a cycle leaves analyzeAndPost, so its promise never
\* rejects and the top-level handler is never reached; the process
\* terminates only on the startup configuration error.
C13_OnlyConfigErrorTerminates ==
    /\ NoErrorLeavesCycle
    /\ proc = "exited" => ConfigMissing(env)

(***************************************************************************)
(* C14                                                                     *)
(***************************************************************************)
\* The request was made and the body parsed to an object.
ParsedObject == TruthyVar(input.url) /\ input.resp.kind = "object"

\* C14: for a parsed response whose errors field is absent or an empty array
\* fetchGraphQL returns the response's data field, and it returns null in
\* place of the data only after a transport failure or for a non-empty
\* errors array.
C14_DataUnlessErrors ==
    output.fn = "fetchGraphQL" =>
        /\ ParsedObject /\ input.resp.errors \in {"absent", "empty"} =>
              ~output.threw /\ output.value = input.resp.data
        /\ output.value = NullData /\ input.resp.data # NullData =>
              ~ParsedObject \/ input.resp.errors = "nonempty"

(***************************************************************************)
(* C15                                                                     *)
(***************************************************************************)
\* C15: getLatestActivities returns the activities array of a fetchGraphQL
\* result of the shape data.Page.activities, and returns an empty array,
\* without throwing, when fetchGraphQL returned null or when data, Page or
\* activities is missing.
C15_ActivitiesOrEmpty ==
    output.fn = "getLatestActivities" =>
        /\ ~output.threw
        /\ output.value.kind = "array" =>
              output.activities = Activities(TRUE, output.value.activities)
        /\ output.value.kind \in {"null", "undefined", "noPage", "noActivities"} =>
              output.activities = Activities(TRUE, <<>>)
        /\ ~ParsedObject \/ input.resp.errors = "nonempty" =>
              output.activities = Activities(TRUE, <<>>)

C15_Witness ==
    /\ output.fn = "getLatestActivities"
    /\ ParsedObject
    /\ input.resp.errors = "absent"
    /\ input.resp.data.kind = "noPage"
    /\ output.activities = Activities(TRUE, <<>>)

C15_WitnessArray ==
    /\ output.fn = "getLatestActivities"
    /\ output.value.kind = "array"
    /\ Len(output.activities.items) = PerPage

(***************************************************************************)
(* C16                                                                     *)
(***************************************************************************)
\* The pairs of a mapping in the opposite order.
Reversed(m) == [i \in 1..Len(m) |-> m[Len(m) + 1 - i]]

\* C16: for a mapping of two or more keys the result of generateContent does
\* not depend on the order in which the pairs are processed, and text put in
\* for one placeholder is not replaced again.
C16_OrderIndependent ==
    output.fn = "generateContent" /\ Len(input.variables) >= 2 =>
        /\ output.content = generateContent(input.template, Reversed(input.variables))
        /\ output.content = Substituted(input.template, input.variables, 1)

(***************************************************************************)
(* C17                                                                     *)
(***************************************************************************)
\* C17: at every sentinel position the wait by countdown (lines 133-134) and
\* the wait by a single setTimeout (lines 290-293) suspend the loop for the
\* same time, so the time a waiting cycle is suspended for is the time
\* either of them takes.
C17_WaitsEquivalent ==
    \A i \in FrameIds :
        stack[i].pc = "waiting" =>
            /\ stack[i].waitMs = WaitMs("A", Interval("A", stack[i].textPosition))
            /\ stack[i].waitMs = WaitMs("B", Interval("B", stack[i].textPosition))

(***************************************************************************)
(* C18                                                                     *)
(***************************************************************************)
\* The publish step of the cycle: the candidate is chosen, or the choice
\* has failed on an array of activities.
PublishReached(f) ==
    \/ f.pc \in {"publishDelay", "publishing"}
    \/ f.selected # {}
    \/ f.caught /\ f.activities.isArray

\* C18: when the publish step is reached the entries before the sentinel are
\* at least 10, so their maximum like count is an integer, the tie set is
\* not empty and the selected candidate is one of its entries; the maximum
\* of no entries never occurs.
C18_CandidateDefined ==
    \A i \in FrameIds :
        PublishReached(stack[i]) =>
            LET top == TopActivities(stack[i].activities.items,
                                     stack[i].textPosition)
            IN /\ Len(top) >= 10
               /\ MaxLikes(top) \in Nat
               /\ Len(MostLikedActivities(top)) >= 1
               /\ ~stack[i].caught
               /\ Cardinality(stack[i].selected) = 1
               /\ \A a \in stack[i].selected :
                    \E k \in 1..Len(top) : top[k] = a /\ Likes(a) = MaxLikes(top)

C18_Witness ==
    \E i \in FrameIds :
        /\ stack[i].pc = "publishing"
        /\ stack[i].textPosition = 11
        /\ Len(TopActivities(stack[i].activities.items, 11)) = 10
        /\ stack[i].selected # {}

(***************************************************************************)
(* C19                                                                     *)
(***************************************************************************)
\* The loop has stopped rescheduling: a cycle has ended without a wait, or
\* the promise of the loop is settled.
Stopped ==
    \/ loop \in {"resolved", "rejected"}
    \/ \E i \in FrameIds : stack[i].pc \in {"returned", "thrown"}

\* The activation issues its publish call or has issued it.
Publishing(f) ==
    f.pc \in {"publishDelay", "publishing"} \/ f.publishes > 0 \/ f.result # "none"

\* C19: once the loop has stopped rescheduling it stays stopped: no fetch and
\* no publish call is issued any more and no cycle starts; and a publish
\* call is only issued by a cycle whose own fetch delivered the page.
C19_StoppedForGood ==
    /\ [](\A i \in FrameIds :
            Publishing(stack[i]) =>
                /\ fetches >= i
                /\ stack[i].activities.isArray
                /\ Len(stack[i].activities.items) >= Threshold
                /\ \A j \in FrameIds : Publishing(stack[j]) => j = i)
    /\ [][Stopped =>
            /\ Stopped'
            /\ fetches' = fetches
            /\ Len(stack') <= Len(stack)
            /\ \A i \in 1..Len(stack') :
                 /\ ~InFlight(stack'[i])
                 /\ stack'[i].publishes <= stack[i].publishes]_vars

C19_Witness ==
    /\ loop = "resolved"
    /\ stack = <<>>
    /\ fetches = MaxCycles

====
